---- MODULE Spec2Model ----
(***************************************************************************)
(* open-balena-builder: the build endpoint (POST /v3/build) and the delta  *)
(* endpoint (GET /api/v3/delta) as state machines.  One step of a handler  *)
(* is the code it runs between two suspension points (await).              *)
(***************************************************************************)
EXTENDS Integers, Sequences, FiniteSets, TLC

\* ---------------------------------------------------------------- bounds
MaxChunks == 1         \* output chunks one build process emits
MaxTicks == 1          \* spinner timer ticks per build request
MaxDeltas == 2         \* delta jobs the planner returns for one release
MaxImages == 2         \* images of one release
NumDelta == 2          \* delta requests in flight
NumExec == 3           \* build requests whose processes run side by side
MaxText == 4           \* characters of one chunk of process output

\* ------------------------------------------------------ program constants
LockWaitCeiling == 1200    \* 60 * 20 one-second polls

VARIABLES
    dockerHostAmd64,   \* configured native amd64 endpoint ("" = not configured)
    dockerHostArm64,   \* configured native arm64 endpoint ("" = not configured)
    fs,                \* build service: the directories that exist under /tmp
    b,                 \* build service: each request's handler state
    dfs,               \* delta service: the directories that exist under /tmp
    registry,          \* delta service: delta images present in the registry
    d,                 \* delta service: each request's handler state
    oldImages,         \* delta planner: the images of the active release
    newImages,         \* delta planner: the images of the new release
    deltas,            \* delta planner: the jobs it has collected
    returned,          \* delta planner: generateDeltas has returned
    appArch,           \* builder selection: what getArch resolved to
    reqQuery,          \* builder selection: the request's query parameters
    buildSpawn,        \* builder selection: the build process as spawned
    execs,             \* process environments: each build request's position
    procs,             \* process environments: the processes spawned so far
    credStore,         \* process environments: the tokens login has stored
    chunk,             \* output transform: the chunk read from the process
    pushed             \* output transform: what the transform stream pushed

buildVars == <<dockerHostAmd64, dockerHostArm64, fs, b>>
deltaVars == <<dfs, registry, d>>
planVars == <<oldImages, newImages, deltas, returned>>
targetVars == <<appArch, reqQuery, buildSpawn>>
execVars == <<execs, procs, credStore>>
transformVars == <<chunk, pushed>>
pureVars == <<planVars, targetVars, execVars, transformVars>>
vars == <<dockerHostAmd64, dockerHostArm64, fs, b, dfs, registry, d,
          oldImages, newImages, deltas, returned,
          appArch, reqQuery, buildSpawn, execs, procs, credStore,
          chunk, pushed>>

\* Build requests share no state but /tmp, where each has a directory of its
\* own name: one request's handler is followed.
BuildReqs == {1}
DeltaReqs == 1..NumDelta

\* ====================================================== the build endpoint

\* An express response: what the handler has put on the wire.
NewRes ==
    [headersSent |-> FALSE, statusCode |-> 200, sentStatus |-> 0,
     body |-> <<>>, ended |-> FALSE, closed |-> FALSE, closedAt |-> "",
     lateWrite |-> FALSE]

\* res.write(m): the first write flushes the headers; a write to an ended or
\* closed response puts nothing on the wire.
ResWrite(res, m) ==
    IF res.ended \/ res.closed
    THEN [res EXCEPT !.lateWrite = TRUE]
    ELSE [res EXCEPT !.headersSent = TRUE, !.body = Append(@, m),
                     !.sentStatus = IF res.headersSent THEN @ ELSE res.statusCode]

\* res.end(): a no-op on a response already ended.
ResEnd(res) ==
    IF res.ended \/ res.closed THEN [res EXCEPT !.ended = TRUE]
    ELSE [res EXCEPT !.headersSent = TRUE, !.ended = TRUE,
                     !.sentStatus = IF res.headersSent THEN @ ELSE res.statusCode]

\* res.status(code).send(m) on a response whose headers are not sent yet.
ResSend(res, code, m) ==
    IF res.closed THEN [res EXCEPT !.statusCode = code, !.ended = TRUE]
    ELSE [res EXCEPT !.statusCode = code, !.headersSent = TRUE,
                     !.sentStatus = code, !.body = Append(@, m), !.ended = TRUE]

\* The child process behind spawnStream.
NoProc ==
    [state |-> "none", code |-> -1, signals |-> 0, killCalls |-> 0, chunks |-> 0]

\* spawnStream.kill(): a signal is delivered only while the process handle is
\* live; after exit (or a failed spawn) the call returns false.
Kill(ss) ==
    [ss EXCEPT !.killCalls = @ + 1,
               !.signals = IF ss.state = "running" THEN @ + 1 ELSE @]

NewBuild ==
    [pc |-> "idle", headless |-> "false", isdraft |-> "false",
     query |-> [slug |-> FALSE], token |-> FALSE,
     workdir |-> <<>>, headlessReturned |-> FALSE, newCommit |-> "",
     finished |-> FALSE, listening |-> FALSE, res |-> NewRes,
     spawnStream |-> NoProc, releaseCode |-> -1, timer |-> FALSE, ticks |-> 0, deltas |-> <<>>,
     ops |-> {}, fault |-> "", faultAt |-> "", streamedAtFault |-> FALSE,
     spinLog |-> <<>>, loginCode |-> -1]

\* crypto.randomUUID(): one fresh name per request.
Uuid(r) == <<"tmp", r>>

\* text.includes(needle), on sequences of characters.
Includes(text, needle) ==
    \E i \in 0..(Len(text) - Len(needle)) :
        \A k \in DOMAIN needle : text[i + k] = needle[k]

\* Lines 83-84: the marks transform looks for.  A text is a sequence of
\* characters; "Error" and "2K" stand for these runs of characters and
\* "ESC" for the character \u001b.
ErrorMark == <<"[", "Error", "]">>
ClearLineMark == <<"ESC", "[", "2K", "\r">>
NewLine == <<"\n">>

\* Lines 73-89: a chunk of process output framed as a progress message.
transform(message) ==
    [frame |-> "json", message |-> message,
     isError |-> Includes(message, ErrorMark),
     replace |-> Includes(message, ClearLineMark) \/ ~Includes(message, NewLine)]

\* The chunks a build process prints: a line of output, an error line, the
\* line that reports the release commit.
ChunkKinds == {"plain", "error", "success"}
ChunkText(kind) ==
    IF kind = "error" THEN <<"[", "Error", "]", " Deploy failed", "\n">>
    ELSE IF kind = "success" THEN <<"[", "Success", "]", " Release: c1", "\n">>
    ELSE <<"Step 1/4", "\n">>

\* Line 348-349: the chunk as it leaves the transform stream; the response
\* body keeps the name of the chunk in place of its text.
Piped(kind) == [transform(ChunkText(kind)) EXCEPT !.message = kind]

\* A progress message written by the handler itself (lines 54, 56, 411):
\* JSON without an isError field; replace is false where the field is
\* missing.
Progress(m, replace) ==
    [frame |-> "json", message |-> m, isError |-> FALSE, replace |-> replace]

\* A plain body as res.send writes it.
Plain(m) == [frame |-> "plain", message |-> m, isError |-> FALSE, replace |-> FALSE]

\* Lines 53-56: writeLine and clearLine of runSpinner.
writeLine(res, str, replace) == ResWrite(res, Progress(str, replace))
clearLine(res) == ResWrite(res, Progress("", TRUE))

\* Lines 421-426: delete the build directory, close the response.
Cleanup(r, rq) ==
    /\ fs' = (IF rq.workdir # <<>> THEN fs \ {rq.workdir} ELSE fs)
    /\ b' = [b EXCEPT ![r] = [rq EXCEPT !.pc = "done", !.res = ResEnd(rq.res)]]

\* Mutant of Catch: the catch block only logs the error; no error response
\* is sent.
CatchSilent(r, rq, msg) ==
    Cleanup(r, [rq EXCEPT !.fault = msg, !.faultAt = rq.pc,
                          !.streamedAtFault = (rq.listening /\ rq.res.headersSent)])

\* Lines 416-419, then 421-426.  res.send on a response whose headers were
\* already sent throws (headers cannot be set any more): the handler's promise
\* rejects inside the catch block and the cleanup below it is never run.
Catch(r, rq, msg) ==
    LET fq == [rq EXCEPT !.fault = msg, !.faultAt = rq.pc,
                         !.streamedAtFault = (rq.listening /\ rq.res.headersSent)]
    IN
    IF fq.headlessReturned THEN Cleanup(r, fq)
    ELSE IF fq.res.headersSent
    THEN /\ b' = [b EXCEPT ![r] = [fq EXCEPT !.pc = "rejected",
                                             !.res.statusCode = 400]]
         /\ UNCHANGED fs
    ELSE Cleanup(r, [fq EXCEPT !.res = ResSend(fq.res, 400, Plain(msg))])

\* Mutant of RunloopEnd: end() without clearInterval.
RunloopEndKeepsTimer(rq) ==
    [rq EXCEPT !.res = writeLine(clearLine(rq.res), "final", FALSE),
               !.spinLog = Append(@, "final")]

\* Lines 33-36 and 61-64: runloop.end() is clearInterval, then onEnd, which
\* clears the line and writes the message without a spinner character.
RunloopEnd(rq) ==
    [rq EXCEPT !.timer = FALSE,
               !.res = writeLine(clearLine(rq.res), "final", FALSE),
               !.spinLog = Append(@, "final")]

\* Mutant of Validation: the check that a builder is configured is missing.
ValidationNoBuilderCheck(slug, token) ==
    IF ~slug THEN "app slug must be specified"
    ELSE IF ~token THEN "authorization header must be provided"
    ELSE ""

\* Lines 241-246: the message of the validation error, "" for a request
\* that passes; slug and token say whether the request has them.
Validation(slug, token) ==
    IF ~slug THEN "app slug must be specified"
    ELSE IF ~token THEN "authorization header must be provided"
    ELSE IF dockerHostAmd64 = "" /\ dockerHostArm64 = ""
    THEN "no builder available"
    ELSE ""

\* Lines 258, 293-307, 356 and 399-404: a process the request spawned in
\* its workdir is running: login and release finalize, which exec waits
\* for, or the detached build, until it exits.
ProcRunning(r) ==
    \/ b[r].pc \in {"login", "finalize"}
    \/ b[r].spawnStream.state = "running"

\* Lines 231-255: validation, workdir allocation, start of the extraction.
Received(r) ==
    /\ b[r].pc = "idle"
    /\ \E slug \in BOOLEAN, token \in BOOLEAN, mk \in BOOLEAN,
          headless \in {"false", "true"}, isdraft \in {"false", "true"} :
        LET rq == [b[r] EXCEPT !.headless = headless, !.isdraft = isdraft,
                               !.query.slug = slug, !.token = token] IN
        IF Validation(slug, token) # ""
        THEN Catch(r, rq, Validation(slug, token))
        ELSE IF ~mk
        THEN Catch(r, [rq EXCEPT !.workdir = Uuid(r)], "mkdir failed")
        ELSE /\ fs' = fs \cup {Uuid(r)}
             /\ b' = [b EXCEPT ![r] = [rq EXCEPT !.pc = "extract",
                                                 !.workdir = Uuid(r)]]
    /\ UNCHANGED <<dockerHostAmd64, dockerHostArm64, deltaVars, pureVars>>

\* Lines 254-258: the upload ends (or fails); login is spawned.
Extracted(r) ==
    /\ b[r].pc = "extract"
    /\ \E ok \in BOOLEAN :
        IF ok
        THEN /\ b' = [b EXCEPT ![r].pc = "login", ![r].ops = @ \cup {"login"}]
             /\ UNCHANGED fs
        ELSE Catch(r, b[r], "extract failed")
    /\ UNCHANGED <<dockerHostAmd64, dockerHostArm64, deltaVars, pureVars>>

\* Lines 135-140 and 258-261: login closes with a code, or its spawn failed
\* and once(spawnStream, 'close') rejects.  exec returns the code; the
\* handler does not read it, and getArch is sent.
Authenticated(r) ==
    /\ b[r].pc = "login"
    /\ \E out \in {"zero", "nonzero", "spawnError"} :
        IF out = "spawnError" THEN Catch(r, b[r], "spawn failed")
        ELSE /\ b' = [b EXCEPT ![r].pc = "arch",
                               ![r].loginCode = IF out = "zero" THEN 0 ELSE 1,
                               ![r].ops = @ \cup {"getArch"}]
             /\ UNCHANGED fs
    /\ UNCHANGED <<dockerHostAmd64, dockerHostArm64, deltaVars, pureVars>>

\* Mutant of ArchResolved: a headless request does not wait for the build to
\* close (line 356 inside the streaming branch): it finds no commit at once
\* and goes to the cleanup while the build runs.
ArchResolvedNoWait(r) ==
    /\ b[r].pc = "arch"
    /\ \E ok \in BOOLEAN, spawned \in BOOLEAN :
        IF ~ok THEN Catch(r, b[r], "request failed")
        ELSE
          LET ss == [NoProc EXCEPT !.state = IF spawned THEN "running" ELSE "failed"]
              rq == [b[r] EXCEPT !.pc = "building", !.spawnStream = ss,
                                 !.newCommit = "", !.ops = @ \cup {"build"}]
          IN IF rq.headless = "false"
             THEN /\ b' = [b EXCEPT ![r] =
                           [rq EXCEPT !.listening = TRUE, !.finished = FALSE]]
                  /\ UNCHANGED fs
             ELSE Catch(r, [rq EXCEPT
                              !.res = ResSend(rq.res, 200, Plain("Build started")),
                              !.headlessReturned = TRUE], "Build error")
    /\ UNCHANGED <<dockerHostAmd64, dockerHostArm64, deltaVars, pureVars>>

\* Lines 261-356: the architecture arrives, the build is spawned detached
\* (against which builder and with which flags: see BuildSpawned), and
\* the handler either attaches the stream (headless === 'false') or answers
\* 'Build started'; then it waits for the process to close.
ArchResolved(r) ==
    /\ b[r].pc = "arch"
    /\ \E ok \in BOOLEAN, spawned \in BOOLEAN :
        IF ~ok THEN Catch(r, b[r], "request failed")
        ELSE
          LET ss == [NoProc EXCEPT !.state = IF spawned THEN "running" ELSE "failed"]
              rq == [b[r] EXCEPT !.pc = "building", !.spawnStream = ss,
                                 !.newCommit = "", !.ops = @ \cup {"build"}]
          IN /\ b' = [b EXCEPT ![r] =
                        IF rq.headless = "false"
                        THEN [rq EXCEPT !.listening = TRUE, !.finished = FALSE]
                        ELSE [rq EXCEPT !.res = ResSend(rq.res, 200, Plain("Build started")),
                                        !.headlessReturned = TRUE]]
             /\ UNCHANGED fs
    /\ UNCHANGED <<dockerHostAmd64, dockerHostArm64, deltaVars, pureVars>>

\* Lines 311-326 and 348-349: a chunk of build output.  The stdout listener
\* captures the commit of a release-success line; in streaming mode the chunk
\* is piped through transform into the response.
BuildOutput(r) ==
    /\ b[r].pc = "building"
    /\ b[r].spawnStream.state \in {"running", "exited"}
    /\ b[r].spawnStream.chunks < MaxChunks
    /\ \E kind \in ChunkKinds :
        b' = [b EXCEPT ![r].spawnStream.chunks = @ + 1,
                       ![r].newCommit = IF kind = "success" THEN "c1" ELSE @,
                       ![r].res = IF b[r].listening
                                  THEN ResWrite(@, Piped(kind)) ELSE @]
    /\ UNCHANGED <<dockerHostAmd64, dockerHostArm64, fs, deltaVars, pureVars>>

\* The build process exits, by itself or after a terminate signal.
BuildExit(r) ==
    /\ b[r].pc = "building"
    /\ b[r].spawnStream.state = "running"
    /\ \E rc \in {0, 1} :
        b' = [b EXCEPT ![r].spawnStream.state = "exited",
                       ![r].spawnStream.code = rc]
    /\ UNCHANGED <<dockerHostAmd64, dockerHostArm64, fs, deltaVars, pureVars>>

\* Mutant of BuildClosed: the build is judged by its exit code, and a release
\* commit is required only of a build that exited non-zero.
BuildClosedByCode(r) ==
    /\ b[r].pc = "building"
    /\ b[r].spawnStream.state = "exited"
    /\ LET rq == [b[r] EXCEPT !.spawnStream.state = "closed",
                              !.finished = IF b[r].listening THEN TRUE ELSE @]
       IN IF rq.spawnStream.code # 0 THEN Catch(r, rq, "Build error")
          ELSE /\ b' = [b EXCEPT ![r] = [rq EXCEPT !.pc = "relApp",
                                  !.ops = @ \cup {"getReleaseIdForApp"}]]
               /\ UNCHANGED fs
    /\ UNCHANGED <<dockerHostAmd64, dockerHostArm64, deltaVars, pureVars>>

\* Lines 332-334 and 356-362: 'close' of the build process.  The abort
\* detector's listener runs first, then the handler resumes.
BuildClosed(r) ==
    /\ b[r].pc = "building"
    /\ b[r].spawnStream.state = "exited"
    /\ LET rq == [b[r] EXCEPT !.spawnStream.state = "closed",
                              !.finished = IF b[r].listening THEN TRUE ELSE @]
       IN IF rq.newCommit = "" THEN Catch(r, rq, "Build error")
          ELSE /\ b' = [b EXCEPT ![r] = [rq EXCEPT !.pc = "relApp",
                                  !.ops = @ \cup {"getReleaseIdForApp"}]]
               /\ UNCHANGED fs
    /\ UNCHANGED <<dockerHostAmd64, dockerHostArm64, deltaVars, pureVars>>

\* Line 356: the spawn failed; once(spawnStream, 'close') rejects on 'error'.
BuildSpawnError(r) ==
    /\ b[r].pc = "building"
    /\ b[r].spawnStream.state = "failed"
    /\ Catch(r, b[r], "spawn failed")
    /\ UNCHANGED <<dockerHostAmd64, dockerHostArm64, deltaVars, pureVars>>

\* Mutant of ResClosed: the guard inverted, if (finished) instead of
\* if (!finished).
ResClosedInverted(r) ==
    /\ b[r].pc # "idle"
    /\ ~b[r].res.closed
    /\ LET at == IF b[r].res.ended THEN "ended"
                 ELSE IF b[r].pc = "building" THEN b[r].spawnStream.state
                 ELSE b[r].pc
           rq == [b[r] EXCEPT !.res.closed = TRUE, !.res.closedAt = at]
       IN b' = [b EXCEPT ![r] =
                  IF rq.listening /\ rq.finished
                  THEN [rq EXCEPT !.spawnStream = Kill(@)] ELSE rq]
    /\ UNCHANGED <<dockerHostAmd64, dockerHostArm64, fs, deltaVars, pureVars>>

\* Lines 335-340: the response's 'close' event, emitted once: the client went
\* away, or the response was ended and flushed.
ResClosed(r) ==
    /\ b[r].pc # "idle"
    /\ ~b[r].res.closed
    /\ LET at == IF b[r].res.ended THEN "ended"
                 ELSE IF b[r].pc = "building" THEN b[r].spawnStream.state
                 ELSE b[r].pc
           rq == [b[r] EXCEPT !.res.closed = TRUE, !.res.closedAt = at]
       IN b' = [b EXCEPT ![r] =
                  IF rq.listening /\ ~rq.finished
                  THEN [rq EXCEPT !.spawnStream = Kill(@)] ELSE rq]
    /\ UNCHANGED <<dockerHostAmd64, dockerHostArm64, fs, deltaVars, pureVars>>

\* Lines 390-413, entered when delta dispatch has succeeded: finalize the
\* release unless the request asked for a draft, else fall through to cleanup.
AfterDispatch(r, rq) ==
    IF rq.isdraft = "false"
    THEN /\ b' = [b EXCEPT ![r] = [rq EXCEPT !.pc = "finalize", !.timer = TRUE,
                                             !.ops = @ \cup {"finalize"}]]
         /\ UNCHANGED fs
    ELSE Cleanup(r, rq)

\* Lines 361-362: the active release id arrives; the new release is looked up.
GotReleaseIdForApp(r) ==
    /\ b[r].pc = "relApp"
    /\ \E ok \in BOOLEAN :
        IF ok
        THEN /\ b' = [b EXCEPT ![r].pc = "relCommit",
                               ![r].ops = @ \cup {"getReleaseIdFromCommit"}]
             /\ UNCHANGED fs
        ELSE Catch(r, b[r], "request failed")
    /\ UNCHANGED <<dockerHostAmd64, dockerHostArm64, deltaVars, pureVars>>

\* Lines 362-363: the new release id arrives; the images are fetched.
GotReleaseIdFromCommit(r) ==
    /\ b[r].pc = "relCommit"
    /\ \E ok \in BOOLEAN :
        IF ok
        THEN /\ b' = [b EXCEPT ![r].pc = "genDeltas",
                               ![r].ops = @ \cup {"generateDeltas"}]
             /\ UNCHANGED fs
        ELSE Catch(r, b[r], "request failed")
    /\ UNCHANGED <<dockerHostAmd64, dockerHostArm64, deltaVars, pureVars>>

\* Lines 363-388: the planner returns n jobs; runSpinner starts its timer and
\* every job requests its pull token.  With no job Promise.all resolves at
\* once and the spinner block ends before any tick.
GeneratedDeltas(r) ==
    /\ b[r].pc = "genDeltas"
    /\ \E ok \in BOOLEAN, n \in 0..MaxDeltas :
        IF ~ok THEN Catch(r, b[r], "request failed")
        ELSE LET rq == [b[r] EXCEPT !.ops = @ \cup {"dispatch"},
                                    !.deltas = [j \in 1..n |-> "token"]]
             IN IF n = 0 THEN AfterDispatch(r, RunloopEnd(rq))
                ELSE /\ b' = [b EXCEPT ![r] = [rq EXCEPT !.pc = "dispatch",
                                                         !.timer = TRUE]]
                     /\ UNCHANGED fs
    /\ UNCHANGED <<dockerHostAmd64, dockerHostArm64, deltaVars, pureVars>>

\* Lines 28 and 57-60: one tick of the spinner's interval timer clears the
\* line and writes the message with the next spinner character.
SpinnerTick(r) ==
    /\ b[r].timer
    /\ b[r].ticks < MaxTicks
    /\ b' = [b EXCEPT ![r].ticks = @ + 1,
                      ![r].res = writeLine(clearLine(@), "tick", TRUE),
                      ![r].spinLog = Append(@, "tick")]
    /\ UNCHANGED <<dockerHostAmd64, dockerHostArm64, fs, deltaVars, pureVars>>

\* Mutant of DeltaJobStep: Promise.allSettled instead of Promise.all; the
\* phase ends when every job has settled and a failed job is not a fault.
DeltaJobStepSettled(r) ==
    /\ \E j \in DOMAIN b[r].deltas, ok \in BOOLEAN :
        /\ b[r].deltas[j] \in {"token", "delta"}
        /\ LET to == IF ~ok THEN "failed"
                     ELSE IF b[r].deltas[j] = "token" THEN "delta" ELSE "ok"
               rq == [b[r] EXCEPT !.deltas[j] = to]
           IN IF rq.pc # "dispatch" THEN b' = [b EXCEPT ![r] = rq] /\ UNCHANGED fs
              ELSE IF \A k \in DOMAIN rq.deltas : rq.deltas[k] \in {"ok", "failed"}
              THEN AfterDispatch(r, RunloopEnd(rq))
              ELSE b' = [b EXCEPT ![r] = rq] /\ UNCHANGED fs
    /\ UNCHANGED <<dockerHostAmd64, dockerHostArm64, deltaVars, pureVars>>

\* Lines 369-388: one delta job advances: its token arrives and the delta
\* service is called, or its delta arrives, or the call fails.  Promise.all
\* rejects on the first failure and resolves when every job has succeeded;
\* either way runSpinner's finally ends the run loop.  Jobs still in flight
\* when it rejects run on after the handler has left the phase.
DeltaJobStep(r) ==
    /\ \E j \in DOMAIN b[r].deltas, ok \in BOOLEAN :
        /\ b[r].deltas[j] \in {"token", "delta"}
        /\ LET to == IF ~ok THEN "failed"
                     ELSE IF b[r].deltas[j] = "token" THEN "delta" ELSE "ok"
               rq == [b[r] EXCEPT !.deltas[j] = to]
           IN IF rq.pc # "dispatch" THEN b' = [b EXCEPT ![r] = rq] /\ UNCHANGED fs
              ELSE IF to = "failed" THEN Catch(r, RunloopEnd(rq), "request failed")
              ELSE IF \A k \in DOMAIN rq.deltas : rq.deltas[k] = "ok"
              THEN AfterDispatch(r, RunloopEnd(rq))
              ELSE b' = [b EXCEPT ![r] = rq] /\ UNCHANGED fs
    /\ UNCHANGED <<dockerHostAmd64, dockerHostArm64, deltaVars, pureVars>>

\* Lines 393-413: release finalize closes with a code, or its spawn failed.
Finalized(r) ==
    /\ b[r].pc = "finalize"
    /\ \E out \in {"zero", "nonzero", "spawnError"} :
        LET rq == [RunloopEnd(b[r]) EXCEPT !.releaseCode =
                      IF out = "zero" THEN 0 ELSE IF out = "nonzero" THEN 1 ELSE @]
        IN
        IF out = "spawnError" THEN Catch(r, rq, "spawn failed")
        ELSE IF out = "nonzero" THEN Catch(r, rq, "Failed to finalize release")
        ELSE Cleanup(r, [rq EXCEPT !.res = ResWrite(@, Progress("finalized", FALSE))])
    /\ UNCHANGED <<dockerHostAmd64, dockerHostArm64, deltaVars, pureVars>>

\* ====================================================== the delta endpoint

\* Image ids are hex strings, here sequences of hex digits, longer than the
\* 16 digits the delta tag keeps.
Hex16(c) == [i \in 1..16 |-> c]
SrcA == Hex16("a") \o <<"1">>
SrcC == Hex16("c") \o <<"3">>
DestA == Hex16("d") \o <<"4">>
DestB == Hex16("e") \o <<"5">>

\* Strings are sequences of characters; "reg" and "undefined" stand for runs
\* of letters with no '/' and no line break in them.
Digit == {"0", "1", "2", "3", "4", "5", "6", "7", "8", "9"}
HexDigit == Digit \cup {"a", "b", "c", "d", "e", "f"}
NotSlash(c) == c # "/"
IsHexDigit(c) == c \in HexDigit

\* What RegExp.exec returns: null, or the version and the id it captured.
NoMatch == [ok |-> FALSE, ver |-> <<>>, id |-> <<>>]
Image(ver, id) == [ok |-> TRUE, ver |-> ver, id |-> id]

\* Mutant of IdChar: the id group written [^/]+ instead of [0-9a-f]+.
IdCharLoose(c) == NotSlash(c)

\* Line 241: the character class of the id group, [0-9a-f].
IdChar(c) == IsHexDigit(c)

\* Lines 241-242: /^.*?\/v([0-9]+)\/([0-9a-f]+)$/.exec(s).  Neither group
\* can hold a '/', so the '/' before the id is the last one of s and the '/'
\* before the 'v' is the one before that; the prefix is anything on one line.
Exec(s) ==
    LET slashes == {k \in DOMAIN s : s[k] = "/"}
        j == CHOOSE k \in slashes : \A h \in slashes : h <= k
        before == slashes \ {j}
        i == CHOOSE k \in before : \A h \in before : h <= k
        ver == SubSeq(s, i + 2, j - 1)
        id == SubSeq(s, j + 1, Len(s))
    IN IF Cardinality(slashes) < 2 THEN NoMatch
       ELSE IF /\ s[i + 1] = "v"
               /\ ver # <<>> /\ \A k \in DOMAIN ver : ver[k] \in Digit
               /\ id # <<>> /\ \A k \in DOMAIN id : IdChar(id[k])
               /\ \A k \in 1..(i - 1) : s[k] # "\n"
       THEN Image(ver, id) ELSE NoMatch

\* A reference <registry>/v<version>/<id>.
Ref(ver, id) == <<"reg", "/", "v">> \o ver \o <<"/">> \o id

\* Line 231: the src and dest parameters a request may carry, as String()
\* makes them: references, a parameter left out, a path without a version
\* segment, a version that is no number, a reference with a tag, an id in
\* upper case.
Undefined == <<"undefined">>
SrcRefs ==
    {Ref(<<"1">>, SrcA), Ref(<<"1", "2">>, SrcC), Undefined,
     <<"reg", "/">> \o SrcA, <<"reg", "/", "v", "x", "/">> \o SrcA}
DestRefs ==
    {Ref(<<"1">>, DestA), Ref(<<"1">>, DestB), Undefined,
     Ref(<<"1">>, DestA) \o <<":", "t">>, Ref(<<"1">>, <<"D", "4">>)}

\* Mutant of deltaTag: the whole source id, not its first 16 characters.
deltaTagWholeId(src) == <<"delta-">> \o src.id

\* Lines 255-258 and 264: the names derived from src and dest.
deltaTag(src) == <<"delta-">> \o SubSeq(src.id, 1, 16)
deltaImgBase(src, dest) == dest.id \o <<":">> \o deltaTag(src)
deltaImgPath(src, dest) ==
    <<"registry", "/", "v">> \o dest.ver \o <<"/">> \o deltaImgBase(src, dest)
buildWorkdir(src, dest) == <<"/tmp/">> \o deltaImgBase(src, dest)
tmpWorkdir(r) == <<"/tmp/", "uuid", ToString(r)>>

\* The delta service's /tmp: the directories that exist, each with the
\* request that created it.
Exists(path) == \E e \in dfs : e.path = path
Mkdir(dirs, path, r) == dirs \cup {[path |-> path, by |-> r]}
Rm(dirs, path) == {e \in dirs : e.path # path}

\* Mutant of MkdirThrows: mkdirSync called with {recursive: true}, which
\* accepts a directory that is there already.
MkdirNeverThrows(path) == FALSE

\* fs.mkdirSync(path) without the recursive option throws EEXIST when the
\* directory is there already.
MkdirThrows(path) == Exists(path)

\* Mutant of KeepWaiting: the ceiling compared with <= instead of <.
KeepWaitingOffByOne(lockExists, elapsedSecs) ==
    lockExists /\ elapsedSecs <= LockWaitCeiling

\* Line 287: the loop condition of the lock wait.
KeepWaiting(lockExists, elapsedSecs) ==
    lockExists /\ elapsedSecs < LockWaitCeiling

\* Mutant of ShouldBuild: the result of the manifest check is not read.
ShouldBuildAlways(exists) == TRUE

\* Line 301: build only if the manifest check did not find the image.
ShouldBuild(exists) == ~exists

\* The steps of the build phase, in the order of lines 314-382.
BuildSteps == <<"diffgen", "diffbuild", "deltagen", "deltabuild", "push", "rmi">>
BuildPcs == {BuildSteps[i] : i \in DOMAIN BuildSteps}
StepAfter(step) ==
    LET i == CHOOSE k \in DOMAIN BuildSteps : BuildSteps[k] = step
    IN IF i = Len(BuildSteps) THEN "respond" ELSE BuildSteps[i + 1]

\* What one exec can come to: the tool exits 0, exits non-zero, or the spawn
\* fails and once(spawnStream, 'close') rejects.
Outcomes == {"zero", "nonzero", "spawnError"}

NoResp ==
    [sent |-> FALSE, contentType |-> "", success |-> FALSE, name |-> <<>>,
     message |-> ""]

NewDelta ==
    [pc |-> "idle", query |-> [src |-> <<>>, dest |-> <<>>], jwt |-> FALSE,
     src |-> NoMatch, dest |-> NoMatch, workdir |-> <<>>,
     dockerConfig |-> FALSE, elapsedSecs |-> 0, exists |-> FALSE,
     resp |-> NoResp, ran |-> {}, failed |-> "", ceiling |-> FALSE,
     madeLock |-> FALSE, waited |-> FALSE, inspectFailed |-> FALSE]

\* Lines 390-397: delete the active workdir if it exists, set the content
\* type, send the response.  dirs is /tmp as the handler has left it so far.
Respond(r, rq, dirs, resp) ==
    /\ dfs' = (IF rq.workdir # <<>> THEN Rm(dirs, rq.workdir) ELSE dirs)
    /\ d' = [d EXCEPT ![r] = [rq EXCEPT !.pc = "done",
                                        !.resp = [resp EXCEPT !.sent = TRUE,
                                                    !.contentType = "text/html"]]]

\* Lines 386-388, then 390-397.
DeltaCatch(r, rq, dirs, msg) ==
    Respond(r, rq, dirs, [NoResp EXCEPT !.success = FALSE, !.message = msg])

\* Line 385, then 390-397.
DeltaSuccess(r, rq, dirs) ==
    Respond(r, rq, dirs, [NoResp EXCEPT !.success = TRUE,
                                        !.name = deltaImgPath(rq.src, rq.dest)])

\* Lines 274-278, 291-298 and 314-382: the directory the process that a
\* request is waiting for was spawned in (exec's cwd is the active workdir of
\* that moment), <<>> when the request waits for no process.
DeltaProcCwd(r) ==
    IF d[r].pc \in {"login", "inspect"} THEN tmpWorkdir(r)
    ELSE IF d[r].pc \in BuildPcs THEN buildWorkdir(d[r].src, d[r].dest)
    ELSE <<>>

\* Lines 245-252: the message of the validation error, "" for a request
\* that passes.
DeltaValidation(srcMatch, destMatch, jwt) ==
    IF ~srcMatch.ok \/ ~destMatch.ok
    THEN "src and dest url params must be provided"
    ELSE IF ~jwt THEN "authorization header must be provided"
    ELSE IF srcMatch.ver # destMatch.ver
    THEN "src and dest image versions must match"
    ELSE ""

\* Lines 231-278: validation, names, the temporary workdir, docker login.
DeltaReceived(r) ==
    /\ d[r].pc = "idle"
    /\ \E src \in SrcRefs, dest \in DestRefs, jwt \in BOOLEAN :
        LET srcMatch == Exec(src)
            destMatch == Exec(dest)
            rq == [d[r] EXCEPT !.query = [src |-> src, dest |-> dest],
                               !.jwt = jwt]
        IN
        IF DeltaValidation(srcMatch, destMatch, jwt) # ""
        THEN DeltaCatch(r, rq, dfs, DeltaValidation(srcMatch, destMatch, jwt))
        ELSE /\ dfs' = Mkdir(dfs, tmpWorkdir(r), r)
             /\ d' = [d EXCEPT ![r] = [rq EXCEPT !.pc = "login",
                                                 !.src = srcMatch,
                                                 !.dest = destMatch,
                                                 !.ran = {"login"},
                                                 !.workdir = tmpWorkdir(r)]]
    /\ UNCHANGED <<registry, buildVars, pureVars>>

\* Lines 274-298: docker login closes (its exit code is not read; a login that
\* succeeds leaves its credentials in <workdir>/.docker).  Then the lock wait
\* starts if the lock directory exists, else the manifest is inspected.
DeltaLoggedIn(r) ==
    /\ d[r].pc = "login"
    /\ \E out \in Outcomes :
        IF out = "spawnError" THEN DeltaCatch(r, d[r], dfs, "spawn failed")
        ELSE LET rq == [d[r] EXCEPT !.dockerConfig = (out = "zero")] IN
             /\ d' = [d EXCEPT ![r] =
                        IF Exists(buildWorkdir(rq.src, rq.dest))
                        THEN [rq EXCEPT !.pc = "lockwait", !.elapsedSecs = 0,
                                        !.waited = TRUE]
                        ELSE [rq EXCEPT !.pc = "inspect", !.ran = @ \cup {"inspect"}]]
             /\ UNCHANGED dfs
    /\ UNCHANGED <<registry, buildVars, pureVars>>

\* Lines 284-298: one second has passed; the loop polls again or is left and
\* the manifest is inspected.
DeltaPolled(r) ==
    /\ d[r].pc = "lockwait"
    /\ LET elapsedSecs == d[r].elapsedSecs + 1
           locked == Exists(buildWorkdir(d[r].src, d[r].dest))
       IN d' = [d EXCEPT ![r] =
                  IF KeepWaiting(locked, elapsedSecs)
                  THEN [@ EXCEPT !.elapsedSecs = elapsedSecs]
                  ELSE [@ EXCEPT !.pc = "inspect", !.elapsedSecs = 0,
                                 !.ceiling = locked, !.ran = @ \cup {"inspect"}]]
    /\ UNCHANGED <<dfs, registry, buildVars, pureVars>>

\* Mutant of DeltaInspected: workdir = buildWorkdir is assigned before
\* fs.mkdirSync(buildWorkdir), so the cleanup of a request that was refused
\* the lock directory deletes it.
DeltaInspectedSwitchFirst(r) ==
    /\ d[r].pc = "inspect"
    /\ \E out \in Outcomes :
        /\ out = "zero" => deltaImgPath(d[r].src, d[r].dest) \in registry
        /\ IF out = "spawnError" THEN DeltaCatch(r, d[r], dfs, "spawn failed")
           ELSE
             LET rq == [d[r] EXCEPT
                          !.exists = (out = "zero"),
                          !.inspectFailed =
                              /\ out = "nonzero"
                              /\ deltaImgPath(d[r].src, d[r].dest) \in registry]
                 lock == buildWorkdir(rq.src, rq.dest)
                 dirs == Mkdir(dfs, lock, r)
                 lq == [rq EXCEPT !.madeLock = TRUE]
             IN IF ~ShouldBuild(rq.exists) THEN DeltaSuccess(r, rq, dfs)
                ELSE IF MkdirThrows(lock)
                THEN DeltaCatch(r, [rq EXCEPT !.workdir = lock], dfs, "EEXIST")
                ELSE IF ~rq.dockerConfig THEN DeltaCatch(r, lq, dirs, "ENOENT")
                ELSE /\ dfs' = Rm(dirs, tmpWorkdir(r))
                     /\ d' = [d EXCEPT ![r] = [lq EXCEPT !.pc = "diffgen",
                                                         !.workdir = lock,
                                                         !.ran = @ \cup {"diffgen"}]]
    /\ UNCHANGED <<registry, buildVars, pureVars>>

\* Lines 291-328: docker manifest inspect closes; it can exit 0 only if the
\* registry has the image, and an exit that is not 0 although the registry
\* has it is a failure of the check itself (inspectFailed).  Found: success.
\* Not found: the lock directory is created, the credentials and the
\* deltaimage binary are copied into it, the temporary workdir is removed,
\* the lock directory becomes the workdir, and the diff recipe is generated.
DeltaInspected(r) ==
    /\ d[r].pc = "inspect"
    /\ \E out \in Outcomes :
        /\ out = "zero" => deltaImgPath(d[r].src, d[r].dest) \in registry
        /\ IF out = "spawnError" THEN DeltaCatch(r, d[r], dfs, "spawn failed")
           ELSE
             LET rq == [d[r] EXCEPT
                          !.exists = (out = "zero"),
                          !.inspectFailed =
                              /\ out = "nonzero"
                              /\ deltaImgPath(d[r].src, d[r].dest) \in registry]
                 lock == buildWorkdir(rq.src, rq.dest)
                 dirs == Mkdir(dfs, lock, r)
                 lq == [rq EXCEPT !.madeLock = TRUE]
             IN IF ~ShouldBuild(rq.exists) THEN DeltaSuccess(r, rq, dfs)
                ELSE IF MkdirThrows(lock) THEN DeltaCatch(r, rq, dfs, "EEXIST")
                ELSE IF ~rq.dockerConfig THEN DeltaCatch(r, lq, dirs, "ENOENT")
                ELSE /\ dfs' = Rm(dirs, tmpWorkdir(r))
                     /\ d' = [d EXCEPT ![r] = [lq EXCEPT !.pc = "diffgen",
                                                         !.workdir = lock,
                                                         !.ran = @ \cup {"diffgen"}]]
    /\ UNCHANGED <<registry, buildVars, pureVars>>

\* Mutant of DeltaStep: the lock directory is removed when the push is
\* spawned, not after it has closed.
DeltaStepUnlockEarly(r) ==
    /\ d[r].pc \in BuildPcs
    /\ \E out \in Outcomes :
        /\ out = "zero" => d[r].failed = ""
        /\ registry' = IF d[r].pc = "push" /\ out = "zero"
                       THEN registry \cup {deltaImgPath(d[r].src, d[r].dest)}
                       ELSE registry
        /\ IF out = "spawnError" THEN DeltaCatch(r, d[r], dfs, "spawn failed")
           ELSE
             LET rq == [d[r] EXCEPT !.failed =
                          IF out = "nonzero" /\ @ = "" THEN d[r].pc ELSE @]
                 next == StepAfter(rq.pc)
             IN IF next = "respond" THEN DeltaSuccess(r, rq, dfs)
                ELSE /\ d' = [d EXCEPT ![r] = [rq EXCEPT !.pc = next,
                                                         !.ran = @ \cup {next}]]
                     /\ dfs' = IF next = "push" THEN Rm(dfs, rq.workdir) ELSE dfs
    /\ UNCHANGED <<buildVars, pureVars>>

\* Lines 314-385: one tool of the build phase closes and the next is spawned;
\* no exit code is read.  A tool works on what the tools before it produced,
\* so it can exit 0 only if they all did; a push that exits 0 has put the
\* delta image into the registry.
DeltaStep(r) ==
    /\ d[r].pc \in BuildPcs
    /\ \E out \in Outcomes :
        /\ out = "zero" => d[r].failed = ""
        /\ registry' = IF d[r].pc = "push" /\ out = "zero"
                       THEN registry \cup {deltaImgPath(d[r].src, d[r].dest)}
                       ELSE registry
        /\ IF out = "spawnError" THEN DeltaCatch(r, d[r], dfs, "spawn failed")
           ELSE
             LET rq == [d[r] EXCEPT !.failed =
                          IF out = "nonzero" /\ @ = "" THEN d[r].pc ELSE @]
                 next == StepAfter(rq.pc)
             IN IF next = "respond" THEN DeltaSuccess(r, rq, dfs)
                ELSE /\ d' = [d EXCEPT ![r] = [rq EXCEPT !.pc = next,
                                                         !.ran = @ \cup {next}]]
                     /\ UNCHANGED dfs
    /\ UNCHANGED <<buildVars, pureVars>>

\* =================================================== the builder selection

\* Lines 266 and 272: the architectures each native builder builds natively.
Amd64Family == {"amd64", "i386", "i386-nlp"}
Arm64Family == {"aarch64", "armv7hf", "rpi"}

\* Lines 152-158: what getArch resolves to: the slug of the first row, which
\* may be an architecture of neither family, or undefined when there is no row.
Archs == Amd64Family \cup Arm64Family \cup {"armv6", "undefined"}

\* A query parameter the request may leave out.
Flag == {"undefined", "true", "false"}

\* Mutant of BuilderTarget: the arm64 branch is missing; only the amd64
\* builder is ever used natively.
BuilderTargetNoArm(arch, emulated) ==
    IF arch \in Amd64Family /\ dockerHostAmd64 # ""
    THEN [DOCKER_HOST |-> dockerHostAmd64, emulated |-> emulated]
    ELSE [DOCKER_HOST |-> IF dockerHostAmd64 # "" THEN dockerHostAmd64
                          ELSE dockerHostArm64,
          emulated |-> "true"]

\* Mutant of BuilderTarget: the emulated fallback uses the amd64 endpoint
\* without looking whether it is configured.
BuilderTargetAmdOnly(arch, emulated) ==
    IF arch \in Amd64Family /\ dockerHostAmd64 # ""
    THEN [DOCKER_HOST |-> dockerHostAmd64, emulated |-> emulated]
    ELSE IF arch \in Arm64Family /\ dockerHostArm64 # ""
    THEN [DOCKER_HOST |-> dockerHostArm64, emulated |-> emulated]
    ELSE [DOCKER_HOST |-> dockerHostAmd64, emulated |-> "true"]

\* Lines 264-290: the docker host the build runs against and the value of
\* the emulated variable after the selection.
BuilderTarget(arch, emulated) ==
    IF arch \in Amd64Family /\ dockerHostAmd64 # ""
    THEN [DOCKER_HOST |-> dockerHostAmd64, emulated |-> emulated]
    ELSE IF arch \in Arm64Family /\ dockerHostArm64 # ""
    THEN [DOCKER_HOST |-> dockerHostArm64, emulated |-> emulated]
    ELSE [DOCKER_HOST |-> IF dockerHostAmd64 # "" THEN dockerHostAmd64
                          ELSE dockerHostArm64,
          emulated |-> "true"]

\* Line 99: exec drops the empty entries of the command.
RECURSIVE DropEmpty(_)
DropEmpty(cmd) ==
    IF cmd = <<>> THEN <<>>
    ELSE IF Head(cmd) = "" THEN DropEmpty(Tail(cmd))
    ELSE <<Head(cmd)>> \o DropEmpty(Tail(cmd))

\* The dockerfilePath parameter: empty, left out, or a path.
DockerfilePaths == {"", "undefined", "Dockerfile.dev"}

\* Lines 294-303 and 99: the build command as it is spawned.
BuildCommand(emulated, nocache, dockerfilePath) ==
    DropEmpty(<<"/usr/local/bin/balena", "deploy", "slug", "--build", "--draft",
                IF emulated = "true" THEN "--emulated" ELSE "",
                IF nocache = "true" THEN "--nocache" ELSE "",
                IF dockerfilePath # "" THEN "--dockerfile=" \o dockerfilePath
                ELSE "">>)

NoSpawn == [started |-> FALSE, cmd |-> <<>>, env |-> [DOCKER_HOST |-> ""],
            emulated |-> "undefined"]

\* Lines 244-246 and 261-307, for a request that has slug and token: with a
\* builder configured, the target is selected from the architecture and the
\* build is spawned with the command and the environment made for it.
BuildSpawned ==
    /\ ~buildSpawn.started
    /\ Validation(TRUE, TRUE) = ""
    /\ LET target == BuilderTarget(appArch, reqQuery.emulated)
       IN buildSpawn' =
            [started |-> TRUE,
             cmd |-> BuildCommand(target.emulated, reqQuery.nocache,
                                  reqQuery.dockerfilePath),
             env |-> [DOCKER_HOST |-> target.DOCKER_HOST],
             emulated |-> target.emulated]
    /\ UNCHANGED <<appArch, reqQuery, buildVars, deltaVars, planVars,
                   execVars, transformVars>>


\* ======================================================= the delta planner

\* Lines 193-197: an image as getImages returns it.
Locations == {"reg/v2/aa", "reg/v2/bb"}
Hashes == {"sha256:1", "sha256:2"}
ServiceIds == {1, 2}
Images ==
    [imageLocation : Locations, contentHash : Hashes, serviceId : ServiceIds]
ImageLists == UNION {[1..n -> Images] : n \in 0..MaxImages}

\* Mutant of Matches: the location and the hash joined by || instead of &&.
MatchesEither(oldImage, newImage) ==
    /\ oldImage.serviceId = newImage.serviceId
    /\ \/ oldImage.imageLocation # newImage.imageLocation
       \/ oldImage.contentHash # newImage.contentHash

\* Lines 207-210: the predicate of oldImages.find.
Matches(oldImage, newImage) ==
    /\ oldImage.serviceId = newImage.serviceId
    /\ oldImage.imageLocation # newImage.imageLocation
    /\ oldImage.contentHash # newImage.contentHash

\* Lines 206-211: Array.prototype.find: the first element the predicate
\* accepts, as its index; 0 for undefined.
Find(images, newImage) ==
    LET hits == {o \in DOMAIN images : Matches(images[o], newImage)}
    IN IF hits = {} THEN 0 ELSE CHOOSE o \in hits : \A h \in hits : o <= h

\* Lines 204-218: newImages.forEach from element i on; a match pushes one
\* job.
RECURSIVE ForEachFrom(_, _, _)
ForEachFrom(old, new, i) ==
    IF i > Len(new) THEN <<>>
    ELSE LET match == Find(old, new[i])
         IN (IF match # 0
             THEN <<[src |-> old[match].imageLocation,
                     dest |-> new[i].imageLocation]>>
             ELSE <<>>) \o ForEachFrom(old, new, i + 1)

\* Lines 201-219, given the two image lists.
generateDeltas(old, new) == ForEachFrom(old, new, 1)

\* generateDeltas is called on the two lists and returns.
Planned ==
    /\ ~returned
    /\ deltas' = generateDeltas(oldImages, newImages)
    /\ returned' = TRUE
    /\ UNCHANGED <<oldImages, newImages, buildVars, deltaVars, targetVars,
                   execVars, transformVars>>

\* ================================================= the process environments

\* Build requests side by side, followed through the processes they spawn.
ExecReqs == 1..NumExec

NewExec == [pc |-> "idle", workdir |-> <<>>, read |-> {}]

\* envAdd of a process spawned without one, and of the build and finalize
\* processes (lines 264-290: the builder endpoint).
NoEnvAdd == [k \in {} |-> ""]
BuilderEnvAdd == [DOCKER_HOST |-> "tcp://builder"]

\* Mutant of ExecEnv: the two directory variables are not set to cwd, so the
\* tools fall back to the directories of the service's own user.
ExecEnvHome(cwd, envAdd) ==
    envAdd @@ [BALENARC_BALENA_URL |-> "balenaTld",
               BALENARC_DATA_DIRECTORY |-> <<"root", ".balena">>,
               DOCKER_CONFIG |-> <<"root", ".docker">>,
               DOCKER_BUILDKIT |-> "0"]

\* Lines 103-109: the environment exec gives a process; the entries of
\* envAdd are spread last and win.
ExecEnv(cwd, envAdd) ==
    envAdd @@ [BALENARC_BALENA_URL |-> "balenaTld",
               BALENARC_DATA_DIRECTORY |-> cwd,
               DOCKER_CONFIG |-> Append(cwd, ".docker"),
               DOCKER_BUILDKIT |-> "0"]

\* Line 115: spawn(baseCmd, args, {cwd, env}).
Spawn(r, tool, cwd, envAdd) ==
    [by |-> r, tool |-> tool, cwd |-> cwd, env |-> ExecEnv(cwd, envAdd)]

\* The process tool of request r, and the tokens it finds in its data
\* directory.
ProcOf(r, tool) == CHOOSE p \in procs : p.by = r /\ p.tool = tool
TokensAt(dir) == {e.token : e \in {c \in credStore : c.dir = dir}}

\* path is dir or lies below it.
Inside(path, dir) ==
    Len(path) >= Len(dir) /\ SubSeq(path, 1, Len(dir)) = dir

\* Lines 249-258: the workdir is made and login is spawned in it.
ExecReceived(r) ==
    /\ execs[r].pc = "idle"
    /\ execs' = [execs EXCEPT ![r].pc = "login", ![r].workdir = Uuid(r)]
    /\ procs' = procs \cup {Spawn(r, "login", Uuid(r), NoEnvAdd)}
    /\ UNCHANGED <<credStore, buildVars, deltaVars, planVars, targetVars,
                   transformVars>>

\* Lines 258-307: login closes; if it exited 0 it has stored the request's
\* token in its data directory, replacing the one that was there.  The build
\* is spawned.
ExecLoginClosed(r) ==
    /\ execs[r].pc = "login"
    /\ \E ok \in BOOLEAN :
        LET dir == ProcOf(r, "login").env.BALENARC_DATA_DIRECTORY IN
        credStore' = IF ok
                     THEN {c \in credStore : c.dir # dir}
                              \cup {[dir |-> dir, token |-> r]}
                     ELSE credStore
    /\ execs' = [execs EXCEPT ![r].pc = "build"]
    /\ procs' = procs \cup {Spawn(r, "build", execs[r].workdir, BuilderEnvAdd)}
    /\ UNCHANGED <<buildVars, deltaVars, planVars, targetVars, transformVars>>

\* Lines 356-404: the build closes, having worked with the token it found in
\* its data directory; release finalize is spawned, or the request is done
\* (draft, fault) and its workdir deleted.
ExecBuildClosed(r) ==
    /\ execs[r].pc = "build"
    /\ LET dir == ProcOf(r, "build").env.BALENARC_DATA_DIRECTORY
           rq == [execs[r] EXCEPT !.read = @ \cup TokensAt(dir)]
       IN \E finalize \in BOOLEAN :
            IF finalize
            THEN /\ execs' = [execs EXCEPT ![r] = [rq EXCEPT !.pc = "finalize"]]
                 /\ procs' = procs \cup
                        {Spawn(r, "finalize", rq.workdir, BuilderEnvAdd)}
                 /\ UNCHANGED credStore
            ELSE /\ execs' = [execs EXCEPT ![r] = [rq EXCEPT !.pc = "done"]]
                 /\ credStore' = {c \in credStore : ~Inside(c.dir, rq.workdir)}
                 /\ UNCHANGED procs
    /\ UNCHANGED <<buildVars, deltaVars, planVars, targetVars, transformVars>>

\* Lines 393-426: release finalize closes, having worked with the token it
\* found; the workdir is deleted with everything in it.
ExecFinalized(r) ==
    /\ execs[r].pc = "finalize"
    /\ LET dir == ProcOf(r, "finalize").env.BALENARC_DATA_DIRECTORY IN
       execs' = [execs EXCEPT ![r].pc = "done",
                              ![r].read = @ \cup TokensAt(dir)]
    /\ credStore' = {c \in credStore : ~Inside(c.dir, execs[r].workdir)}
    /\ UNCHANGED <<procs, buildVars, deltaVars, planVars, targetVars,
                   transformVars>>

\* ===================================================== the output transform

\* The characters a chunk is made of, and the chunks.
TextChars == {"[", "Error", "]", "ESC", "2K", "\r", "\n", "x"}
Texts == UNION {[1..n -> TextChars] : n \in 0..MaxText}

\* Lines 78-88: the transform stream reads a chunk and pushes its frame.
Transformed ==
    /\ pushed = <<>>
    /\ pushed' = <<transform(chunk)>>
    /\ UNCHANGED <<chunk, buildVars, deltaVars, planVars, targetVars, execVars>>

\* ------------------------------------------------------------------------
Init ==
    /\ dockerHostAmd64 \in {"", "tcp://amd64"}
    /\ dockerHostArm64 \in {"", "tcp://arm64"}
    /\ fs = {}
    /\ b = [r \in BuildReqs |-> NewBuild]
    /\ dfs = {}
    /\ registry = {}
    /\ d = [r \in DeltaReqs |-> NewDelta]
    /\ oldImages = <<>>
    /\ newImages = <<>>
    /\ deltas = <<>>
    /\ returned = FALSE
    /\ appArch = "undefined"
    /\ reqQuery = [emulated |-> "undefined", nocache |-> "undefined",
                   dockerfilePath |-> ""]
    /\ buildSpawn = NoSpawn
    /\ execs = [r \in ExecReqs |-> NewExec]
    /\ procs = {}
    /\ credStore = {}
    /\ chunk = <<>>
    /\ pushed = <<>>

\* The delta service alone: the build service stays as it started.
InitDelta ==
    /\ dockerHostAmd64 = ""
    /\ dockerHostArm64 = ""
    /\ fs = {}
    /\ b = [r \in BuildReqs |-> NewBuild]
    /\ dfs = {}
    /\ registry = {}
    /\ d = [r \in DeltaReqs |-> NewDelta]
    /\ oldImages = <<>>
    /\ newImages = <<>>
    /\ deltas = <<>>
    /\ returned = FALSE
    /\ appArch = "undefined"
    /\ reqQuery = [emulated |-> "undefined", nocache |-> "undefined",
                   dockerfilePath |-> ""]
    /\ buildSpawn = NoSpawn
    /\ execs = [r \in ExecReqs |-> NewExec]
    /\ procs = {}
    /\ credStore = {}
    /\ chunk = <<>>
    /\ pushed = <<>>

\* The delta planner alone, on any two image lists.
InitPlan ==
    /\ dockerHostAmd64 = ""
    /\ dockerHostArm64 = ""
    /\ fs = {}
    /\ b = [r \in BuildReqs |-> NewBuild]
    /\ dfs = {}
    /\ registry = {}
    /\ d = [r \in DeltaReqs |-> NewDelta]
    /\ oldImages \in ImageLists
    /\ newImages \in ImageLists
    /\ deltas = <<>>
    /\ returned = FALSE
    /\ appArch = "undefined"
    /\ reqQuery = [emulated |-> "undefined", nocache |-> "undefined",
                   dockerfilePath |-> ""]
    /\ buildSpawn = NoSpawn
    /\ execs = [r \in ExecReqs |-> NewExec]
    /\ procs = {}
    /\ credStore = {}
    /\ chunk = <<>>
    /\ pushed = <<>>

NextPlan == Planned

\* The processes of build requests side by side.
InitExec ==
    /\ dockerHostAmd64 = ""
    /\ dockerHostArm64 = ""
    /\ fs = {}
    /\ b = [r \in BuildReqs |-> NewBuild]
    /\ dfs = {}
    /\ registry = {}
    /\ d = [r \in DeltaReqs |-> NewDelta]
    /\ oldImages = <<>>
    /\ newImages = <<>>
    /\ deltas = <<>>
    /\ returned = FALSE
    /\ appArch = "undefined"
    /\ reqQuery = [emulated |-> "undefined", nocache |-> "undefined",
                   dockerfilePath |-> ""]
    /\ buildSpawn = NoSpawn
    /\ execs = [r \in ExecReqs |-> NewExec]
    /\ procs = {}
    /\ credStore = {}
    /\ chunk = <<>>
    /\ pushed = <<>>

NextExec ==
    \E r \in ExecReqs :
        \/ ExecReceived(r)
        \/ ExecLoginClosed(r)
        \/ ExecBuildClosed(r)
        \/ ExecFinalized(r)

SpecExec == InitExec /\ [][NextExec]_vars

\* The output transform alone, on any chunk.
InitTransform ==
    /\ dockerHostAmd64 = ""
    /\ dockerHostArm64 = ""
    /\ fs = {}
    /\ b = [r \in BuildReqs |-> NewBuild]
    /\ dfs = {}
    /\ registry = {}
    /\ d = [r \in DeltaReqs |-> NewDelta]
    /\ oldImages = <<>>
    /\ newImages = <<>>
    /\ deltas = <<>>
    /\ returned = FALSE
    /\ appArch = "undefined"
    /\ reqQuery = [emulated |-> "undefined", nocache |-> "undefined",
                   dockerfilePath |-> ""]
    /\ buildSpawn = NoSpawn
    /\ execs = [r \in ExecReqs |-> NewExec]
    /\ procs = {}
    /\ credStore = {}
    /\ chunk \in Texts
    /\ pushed = <<>>

NextTransform == Transformed

SpecTransform == InitTransform /\ [][NextTransform]_vars

\* The builder selection alone, for any configuration, architecture and
\* query parameters.
InitTarget ==
    /\ dockerHostAmd64 \in {"", "tcp://amd64"}
    /\ dockerHostArm64 \in {"", "tcp://arm64"}
    /\ fs = {}
    /\ b = [r \in BuildReqs |-> NewBuild]
    /\ dfs = {}
    /\ registry = {}
    /\ d = [r \in DeltaReqs |-> NewDelta]
    /\ oldImages = <<>>
    /\ newImages = <<>>
    /\ deltas = <<>>
    /\ returned = FALSE
    /\ appArch \in Archs
    /\ reqQuery \in [emulated : Flag, nocache : Flag,
                      dockerfilePath : DockerfilePaths]
    /\ buildSpawn = NoSpawn
    /\ execs = [r \in ExecReqs |-> NewExec]
    /\ procs = {}
    /\ credStore = {}
    /\ chunk = <<>>
    /\ pushed = <<>>

NextTarget == BuildSpawned

SpecTarget == InitTarget /\ [][NextTarget]_vars

SpecPlan == InitPlan /\ [][NextPlan]_vars

NextDelta ==
    \E r \in DeltaReqs :
        \/ DeltaReceived(r)
        \/ DeltaLoggedIn(r)
        \/ DeltaPolled(r)
        \/ DeltaInspected(r)
        \/ DeltaStep(r)

SpecDelta == InitDelta /\ [][NextDelta]_vars

Next ==
    \E r \in BuildReqs :
        \/ Received(r)
        \/ Extracted(r)
        \/ Authenticated(r)
        \/ ArchResolved(r)
        \/ BuildOutput(r)
        \/ BuildExit(r)
        \/ BuildClosed(r)
        \/ BuildSpawnError(r)
        \/ ResClosed(r)
        \/ GotReleaseIdForApp(r)
        \/ GotReleaseIdFromCommit(r)
        \/ GeneratedDeltas(r)
        \/ SpinnerTick(r)
        \/ DeltaJobStep(r)
        \/ Finalized(r)

Spec == Init /\ [][Next]_vars

\* The two services, which share no state (each has its own /tmp): a
\* behaviour follows the requests of one of them.
NextServices ==
    \/ d = [r \in DeltaReqs |-> NewDelta] /\ Next
    \/ b = [r \in BuildReqs |-> NewBuild] /\ NextDelta

SpecServices == Init /\ [][NextServices]_vars

\* ================================================================ claims

\* C1: once the handler of a build request that created a Workdir has
\* finished (it returned, or its promise rejected), the Workdir does not
\* exist any more.
C1_WorkdirGoneWhenFinished ==
    \A r \in BuildReqs :
        (b[r].pc \in {"done", "rejected"} /\ b[r].workdir # <<>>)
            => b[r].workdir \notin fs

\* C2: once a delta request has responded, no directory it created (its
\* temporary workdir, the lock directory) exists any more.
C2_DirsGoneWhenResponded ==
    \A r \in DeltaReqs :
        d[r].resp.sent => ~(\E e \in dfs : e.by = r)

\* C3: no two delta requests hold the same DeltaLock at a time: of any lock
\* directory, at most one request has created it and not yet removed it.
HoldsLock(r, path) ==
    /\ d[r].madeLock
    /\ buildWorkdir(d[r].src, d[r].dest) = path
    /\ \E e \in dfs : e.path = path /\ e.by = r
C3_OneLockHolder ==
    \A r1, r2 \in DeltaReqs :
        \A e \in dfs :
            (HoldsLock(r1, e.path) /\ HoldsLock(r2, e.path)) => r1 = r2
\* A request is in its build phase while another one for the same identity,
\* whose lock wait reached the ceiling, was refused the lock directory.
C3_Witness ==
    \E r1, r2 \in DeltaReqs :
        /\ r1 # r2
        /\ d[r1].pc \in BuildPcs
        /\ d[r2].ceiling
        /\ d[r2].resp.sent /\ d[r2].resp.message = "EEXIST"
        /\ HoldsLock(r1, buildWorkdir(d[r2].src, d[r2].dest))

\* C4: the build process of a streaming request gets exactly one terminate
\* signal if the client closes the connection while it runs, and none
\* otherwise: none once its exit was observed, none in a later phase, none
\* when the response closes normally.
C4_TerminateOnce ==
    \A r \in BuildReqs :
        LET ss == b[r].spawnStream IN
        /\ ss.signals <= 1
        /\ (b[r].res.closedAt = "running") => (ss.signals = 1 /\ b[r].listening)
        /\ (b[r].res.closedAt # "running") => ss.signals = 0
C4_Witness ==
    \E r \in BuildReqs :
        /\ b[r].res.closedAt = "running"
        /\ b[r].spawnStream.signals = 1
        /\ b[r].spawnStream.state = "closed"

\* C5: a delta request whose manifest check found the delta image creates no
\* lock directory, runs no step of the build phase, and responds success with
\* the delta reference as name.
C5_ExistingImageShortCircuits ==
    \A r \in DeltaReqs :
        d[r].exists =>
            /\ ~d[r].madeLock
            /\ d[r].ran \cap BuildPcs = {}
            /\ d[r].resp = [sent |-> TRUE, contentType |-> "text/html",
                            success |-> TRUE, message |-> "",
                            name |-> deltaImgPath(d[r].src, d[r].dest)]
C5_Witness ==
    \E r \in DeltaReqs : d[r].exists /\ d[r].resp.sent

\* C6: a request leaves the lock wait with the lock directory still there
\* only at its 1200th poll, and then goes on to the manifest check; it is
\* never in the lock wait with 1200 polls done.
C6_CeilingExact ==
    /\ [](\A r \in DeltaReqs :
            d[r].pc = "lockwait" => d[r].elapsedSecs < LockWaitCeiling)
    /\ [][\A r \in DeltaReqs :
            (/\ d[r].pc = "lockwait"
             /\ d'[r].pc # "lockwait"
             /\ Exists(buildWorkdir(d[r].src, d[r].dest)))
            => (d[r].elapsedSecs + 1 = LockWaitCeiling /\ d'[r].pc = "inspect")]_vars
C6_Witness ==
    \E r \in DeltaReqs : d[r].ceiling /\ d[r].pc = "inspect"

\* C7: a request whose lock wait reached the ceiling with the lock directory
\* still there, and whose manifest check did not find the image, builds and
\* pushes and responds success, if no tool of its own fails.
C7_ProceedsAfterCeiling ==
    \A r \in DeltaReqs :
        (/\ d[r].resp.sent
         /\ d[r].ceiling
         /\ "inspect" \in d[r].ran /\ ~d[r].exists
         /\ d[r].failed = ""
         /\ d[r].resp.message \notin {"spawn failed", "ENOENT"})
        => (d[r].resp.success /\ "push" \in d[r].ran)

\* C8: once a step of the build phase (diff recipe, diff build, delta recipe,
\* delta build, push) has exited non-zero, the step after it is not run and
\* the response is not a success.
FatalSteps == {"diffgen", "diffbuild", "deltagen", "deltabuild", "push"}
C8_StepFailureIsFatal ==
    \A r \in DeltaReqs :
        d[r].failed \in FatalSteps =>
            /\ StepAfter(d[r].failed) \notin d[r].ran
            /\ d[r].resp.sent => ~d[r].resp.success

\* C9: a build process that closed with no release commit captured makes the
\* request fail with 'Build error', whatever its exit code: no release id is
\* looked up, no delta planned or dispatched, no finalize run.
AfterBuildOps ==
    {"getReleaseIdForApp", "getReleaseIdFromCommit", "generateDeltas",
     "dispatch", "finalize"}
C9_NoCommitIsFailure ==
    \A r \in BuildReqs :
        (b[r].spawnStream.state = "closed" /\ b[r].newCommit = "") =>
            /\ b[r].fault = "Build error"
            /\ b[r].pc \in {"done", "rejected"}
            /\ b[r].ops \cap AfterBuildOps = {}
C9_Witness ==
    \E r \in BuildReqs :
        /\ b[r].spawnStream.state = "closed"
        /\ b[r].spawnStream.code = 0
        /\ b[r].newCommit = ""
        /\ b[r].fault = "Build error"

\* C10: a fault of a streaming request raised after body bytes were written
\* is appended to the stream as a message with isError true, the stream is
\* then closed, and the status is left as it was sent.
C10_FaultAppendedToStream ==
    \A r \in BuildReqs :
        b[r].streamedAtFault =>
            /\ \E i \in DOMAIN b[r].res.body :
                  /\ b[r].res.body[i].frame = "json"
                  /\ b[r].res.body[i].message = b[r].fault
                  /\ b[r].res.body[i].isError
            /\ b[r].res.ended
            /\ b[r].res.statusCode = b[r].res.sentStatus

\* C11: a fault of a build request raised before the build is spawned
\* (validation, workdir allocation, extraction, login, architecture
\* resolution), when nothing has been sent yet, is answered once: status 400
\* and the fault message as the whole body, to a client that is still
\* connected; the response is then ended and nothing else is written to it.
PreSpawnPcs == {"idle", "extract", "login", "arch"}
C11_EarlyFaultIsOneErrorResponse ==
    \A r \in BuildReqs :
        b[r].faultAt \in PreSpawnPcs =>
            /\ b[r].pc = "done"
            /\ b[r].res.ended /\ b[r].res.statusCode = 400
            /\ ~b[r].res.lateWrite
            /\ IF b[r].res.closedAt \in {"", "ended"}
               THEN /\ b[r].res.body = <<Plain(b[r].fault)>>
                    /\ b[r].res.sentStatus = 400
               ELSE b[r].res.body = <<>>
\* The architecture query of a headless request failed and the client got
\* the 400 response before the connection closed.
C11_Witness ==
    \E r \in BuildReqs :
        /\ b[r].faultAt = "arch"
        /\ b[r].headless = "true"
        /\ b[r].res.closedAt = "ended"
        /\ b[r].res.body = <<Plain("request failed")>>
        /\ b[r].res.sentStatus = 400

C13_HeadlessWritesOnce ==
    \A r \in BuildReqs :
        b[r].headlessReturned =>
            /\ ~b[r].res.lateWrite
            /\ b[r].res.sentStatus \in {0, 200}
            /\ \A i \in DOMAIN b[r].res.body :
                  i = 1 /\ b[r].res.body[i] = Plain("Build started")

\* C14: release finalize is run only for a request that is streaming
\* (headless 'false') and not a draft (isdraft 'false'), with a commit
\* captured and every delta job succeeded; and a finalize that exits non-zero
\* makes the request fail with 'Failed to finalize release'.
C14_FinalizeOnlyStreamingNonDraft ==
    \A r \in BuildReqs :
        /\ "finalize" \in b[r].ops =>
              /\ b[r].headless = "false" /\ b[r].isdraft = "false"
              /\ b[r].newCommit # ""
              /\ \A j \in DOMAIN b[r].deltas : b[r].deltas[j] = "ok"
        /\ b[r].releaseCode > 0 => b[r].fault = "Failed to finalize release"

\* C15: when the client of a streaming request has closed the connection
\* while the build process ran, then once the terminated process has closed
\* the request is cleaned up as a cancellation: no fault is raised and no
\* error status is set on the closed response.
C15_CancellationIsNotAFault ==
    \A r \in BuildReqs :
        (/\ b[r].listening
         /\ b[r].res.closedAt = "running"
         /\ b[r].spawnStream.state = "closed")
        => (/\ b[r].fault = ""
            /\ b[r].res.statusCode = 200
            /\ b[r].pc = "done")

\* The architecture has a native builder that is configured.
NativeAmd64(arch) == arch \in Amd64Family /\ dockerHostAmd64 # ""
NativeArm64(arch) == arch \in Arm64Family /\ dockerHostArm64 # ""
Passed(flag) == \E i \in DOMAIN buildSpawn.cmd : buildSpawn.cmd[i] = flag

\* C16: a build of an app whose architecture is amd64, i386 or i386-nlp with
\* the amd64 endpoint configured runs against the amd64 endpoint, and one
\* whose architecture is aarch64, armv7hf or rpi with the arm64 endpoint
\* configured runs against the arm64 endpoint; in both cases the emulated
\* variable is what the request gave, and --emulated is on the command line
\* exactly if the request gave emulated=true.
C16_NativeTargetNotEmulated ==
    (buildSpawn.started /\ (NativeAmd64(appArch) \/ NativeArm64(appArch)))
    => /\ buildSpawn.env.DOCKER_HOST =
              IF appArch \in Amd64Family THEN dockerHostAmd64
              ELSE dockerHostArm64
       /\ buildSpawn.emulated = reqQuery.emulated
       /\ Passed("--emulated") <=> (reqQuery.emulated = "true")
\* An rpi app is built on the arm64 endpoint, with the amd64 endpoint
\* configured too, for a request that did not ask for emulation.
C16_Witness ==
    /\ buildSpawn.started
    /\ appArch = "rpi" /\ dockerHostAmd64 # ""
    /\ buildSpawn.env.DOCKER_HOST = "tcp://arm64"
    /\ reqQuery.emulated = "false"
    /\ ~Passed("--emulated")

\* C17: a build of an app whose architecture has no configured native
\* builder (an architecture of the other family, of neither family, or none
\* resolved) is emulated and runs against the amd64 endpoint if that is
\* configured, else against the arm64 endpoint; and every build that was
\* started runs against one configured endpoint.
C17_EmulatedFallback ==
    buildSpawn.started =>
        /\ buildSpawn.env.DOCKER_HOST # ""
        /\ buildSpawn.env.DOCKER_HOST \in {dockerHostAmd64, dockerHostArm64}
        /\ (~NativeAmd64(appArch) /\ ~NativeArm64(appArch)) =>
              /\ buildSpawn.emulated = "true"
              /\ Passed("--emulated")
              /\ buildSpawn.env.DOCKER_HOST =
                    IF dockerHostAmd64 # "" THEN dockerHostAmd64
                    ELSE dockerHostArm64
\* An amd64 app is built emulated on the arm64 endpoint, the only one
\* configured, for a request that asked for no emulation.
C17_Witness ==
    /\ buildSpawn.started
    /\ appArch = "amd64" /\ dockerHostAmd64 = ""
    /\ reqQuery.emulated = "false"
    /\ buildSpawn.emulated = "true"
    /\ buildSpawn.env.DOCKER_HOST = "tcp://arm64"

\* C18: the jobs generateDeltas returns are, in the order of the new list,
\* one job for each new image for which some old image has the same
\* serviceId, another imageLocation and another contentHash; the job's dest
\* is the new image's location and its src the location of such an old
\* image.  A new image with no such old image (its service is not in the old
\* release, or the old image of its service has the same hash or the same
\* location) has no job.
BothDiffer(o, n) ==
    o.serviceId = n.serviceId /\ o.imageLocation # n.imageLocation
        /\ o.contentHash # n.contentHash
Changed ==
    {i \in DOMAIN newImages :
        \E o \in DOMAIN oldImages : BothDiffer(oldImages[o], newImages[i])}
C18_PlannerJobs ==
    returned =>
        /\ Len(deltas) = Cardinality(Changed)
        /\ \A i \in Changed :
              LET k == Cardinality({j \in Changed : j <= i}) IN
              /\ deltas[k].dest = newImages[i].imageLocation
              /\ \E o \in DOMAIN oldImages :
                    /\ BothDiffer(oldImages[o], newImages[i])
                    /\ deltas[k].src = oldImages[o].imageLocation
\* Two services: the first was re-tagged (new location, same hash), the
\* second rebuilt; the planner returns the one job of the second.
C18_Witness ==
    /\ returned
    /\ Len(oldImages) = 2 /\ Len(newImages) = 2
    /\ oldImages[1].serviceId = 1 /\ newImages[1].serviceId = 1
    /\ oldImages[2].serviceId = 2 /\ newImages[2].serviceId = 2
    /\ oldImages[1].contentHash = newImages[1].contentHash
    /\ oldImages[1].imageLocation # newImages[1].imageLocation
    /\ deltas = <<[src |-> oldImages[2].imageLocation,
                   dest |-> newImages[2].imageLocation]>>
    /\ deltas[1].src # deltas[1].dest

\* C19: a build request without an app slug or without a bearer token, and
\* any build request while neither builder endpoint is configured, is
\* answered with status 400 and the validation message, and for it no
\* workdir is created, no process spawned and no metadata query made.
ValidationMessages ==
    {"app slug must be specified", "authorization header must be provided",
     "no builder available"}
C19_InvalidBuildRejectedEarly ==
    \A r \in BuildReqs :
        (/\ b[r].pc # "idle"
         /\ \/ ~b[r].query.slug
            \/ ~b[r].token
            \/ (dockerHostAmd64 = "" /\ dockerHostArm64 = ""))
        => /\ b[r].pc = "done"
           /\ b[r].fault \in ValidationMessages
           /\ b[r].res.sentStatus = 400
           /\ b[r].res.body = <<Plain(b[r].fault)>>
           /\ b[r].workdir = <<>> /\ fs = {}
           /\ b[r].ops = {}
           /\ b[r].spawnStream = NoProc
\* A request with slug and token was rejected because no builder endpoint
\* is configured.
C19_Witness ==
    \E r \in BuildReqs :
        /\ b[r].query.slug /\ b[r].token
        /\ b[r].fault = "no builder available"
        /\ b[r].res.sentStatus = 400
        /\ fs = {}

\* The ways to read s as <prefix>/v<digits>/<hex id>: the version and id of
\* each.
Forms(s) ==
    UNION {
        LET j == Len(s) - nid IN
        IF s[j] = "/" /\ (\A k \in (j + 1)..Len(s) : s[k] \in HexDigit)
        THEN {[ver |-> SubSeq(s, j - nv, j - 1), id |-> SubSeq(s, j + 1, Len(s))] :
                nv \in {n \in 1..(j - 3) :
                          /\ s[j - n - 1] = "v" /\ s[j - n - 2] = "/"
                          /\ \A k \in (j - n)..(j - 1) : s[k] \in Digit}}
        ELSE {} : nid \in 1..(Len(s) - 1)}
\* C20: a delta request whose src or dest is not of the form
\* <prefix>/v<digits>/<hex id>, whose src and dest have different versions,
\* or that has no bearer token, is answered {success: false, message}; for
\* it no directory is created, no process spawned, and no lock waited on or
\* created.
C20_InvalidDeltaRejectedEarly ==
    \A r \in DeltaReqs :
        (/\ d[r].pc # "idle"
         /\ \/ ~d[r].jwt
            \/ Forms(d[r].query.src) = {}
            \/ Forms(d[r].query.dest) = {}
            \/ \A f \in Forms(d[r].query.src), g \in Forms(d[r].query.dest) :
                  f.ver # g.ver)
        => /\ d[r].pc = "done"
           /\ d[r].resp.sent /\ ~d[r].resp.success /\ d[r].resp.message # ""
           /\ d[r].workdir = <<>>
           /\ \A e \in dfs : e.by # r
           /\ d[r].ran = {}
           /\ d[r].elapsedSecs = 0 /\ ~d[r].ceiling /\ ~d[r].madeLock
\* A request with a token and well-formed src and dest of versions 12 and 1
\* was rejected while another request was in its build phase.
C20_Witness ==
    \E r, r2 \in DeltaReqs :
        /\ d[r].jwt
        /\ d[r].query.src = Ref(<<"1", "2">>, SrcC)
        /\ d[r].query.dest = Ref(<<"1">>, DestA)
        /\ d[r].resp.sent
        /\ d[r].resp.message = "src and dest image versions must match"
        /\ d[r2].pc \in BuildPcs

\* The text of s after its last '/', and the digits between the 'v' and
\* that '/'.
LastSlash(s) == CHOOSE k \in DOMAIN s : s[k] = "/" /\ \A h \in (k + 1)..Len(s) : s[h] # "/"
IdOf(s) == SubSeq(s, LastSlash(s) + 1, Len(s))
VersionOf(s) ==
    LET j == LastSlash(s)
        i == CHOOSE k \in 1..(j - 1) : s[k] = "/" /\ \A h \in (k + 1)..(j - 1) : s[h] # "/"
    IN SubSeq(s, i + 2, j - 1)
FirstChars(s, n) == [k \in 1..(IF Len(s) < n THEN Len(s) ELSE n) |-> s[k]]
TagOf(q) == <<"delta-">> \o FirstChars(IdOf(q.src), 16)
ReferenceOf(q) ==
    <<"registry", "/", "v">> \o VersionOf(q.dest) \o <<"/">> \o IdOf(q.dest)
        \o <<":">> \o TagOf(q)
LockPathOf(q) == <<"/tmp/">> \o IdOf(q.dest) \o <<":">> \o TagOf(q)
\* C21: the delta image's tag is 'delta-' and the first 16 characters of the
\* source id, its reference <registry>/v<dest version>/<dest id>:<tag>, and
\* the lock path /tmp/<dest id>:<tag>: the name a request answers with, the
\* name it inspects and pushes, and the directory it builds in are these,
\* every directory a request made is its own temporary one or this lock
\* path, and two requests with the same src and dest have the same names
\* whatever their random ids.
C21_DeltaNamesFromSrcDest ==
    /\ \A r \in DeltaReqs :
        /\ d[r].resp.sent /\ d[r].resp.success
            => d[r].resp.name = ReferenceOf(d[r].query)
        /\ d[r].pc \in BuildPcs => d[r].workdir = LockPathOf(d[r].query)
    /\ \A e \in dfs :
        e.path # tmpWorkdir(e.by) => e.path = LockPathOf(d[e.by].query)
    /\ \A name \in registry :
        \E r \in DeltaReqs : "push" \in d[r].ran /\ name = ReferenceOf(d[r].query)
    /\ \A r1, r2 \in DeltaReqs :
        d[r1].query = d[r2].query
        => /\ d[r1].resp.success /\ d[r2].resp.success
               => d[r1].resp.name = d[r2].resp.name
           /\ d[r1].pc = "lockwait" /\ d[r2].pc \in BuildPcs
               => d[r1].workdir # d[r2].workdir /\ Exists(d[r2].workdir)
\* Two requests with the same src and dest, whose source id is longer than
\* 16 characters: one built and pushed the delta image, the other found it
\* in the registry, and both answered with the same name.
C21_Witness ==
    \E r1, r2 \in DeltaReqs :
        /\ r1 # r2
        /\ d[r1].query = d[r2].query
        /\ "push" \in d[r1].ran /\ "push" \notin d[r2].ran
        /\ d[r1].resp.success /\ d[r2].resp.success
        /\ Len(IdOf(d[r1].query.src)) > 16
        /\ d[r1].resp.name = d[r2].resp.name
        /\ d[r1].resp.name \in registry

\* The number of spinner blocks of request r whose wrapped step has ended:
\* the delta dispatch, the release finalize.
BlocksEnded(r) ==
    (IF "dispatch" \in b[r].ops /\ b[r].pc # "dispatch" THEN 1 ELSE 0)
    + (IF "finalize" \in b[r].ops /\ b[r].pc # "finalize" THEN 1 ELSE 0)
Finals(log) == Cardinality({i \in DOMAIN log : log[i] = "final"})
\* C22: the spinner's timer runs only while the wrapped step of a spinner
\* block is in flight; once the step has ended, in success or in a fault,
\* the message has been written once for that block without a spinner
\* character and with replace false, no tick is written after it, and the
\* step's fault or result is the request's (a failed delta job is the fault
\* 'request failed' of the dispatch phase, the exit code of release finalize
\* is the code the handler reads).
C22_SpinnerEndsWithStep ==
    /\ [](\A r \in BuildReqs :
        /\ b[r].timer <=> b[r].pc \in {"dispatch", "finalize"}
        /\ Finals(b[r].spinLog) = BlocksEnded(r)
        /\ (~b[r].timer /\ b[r].spinLog # <<>>)
            => b[r].spinLog[Len(b[r].spinLog)] = "final"
        /\ \A i \in DOMAIN b[r].res.body :
            b[r].res.body[i].message = "final" => ~b[r].res.body[i].replace
        /\ (\E j \in DOMAIN b[r].deltas : b[r].deltas[j] = "failed")
            => b[r].fault = "request failed" /\ b[r].faultAt = "dispatch"
        /\ b[r].releaseCode = 1
            => b[r].fault = "Failed to finalize release" /\ b[r].faultAt = "finalize")
    /\ [][\A r \in BuildReqs :
            Len(b'[r].spinLog) > Len(b[r].spinLog)
            => \/ b[r].timer
               \/ b'[r].spinLog = Append(b[r].spinLog, "final")]_vars
\* A streaming request whose dispatch block ticked once and then ended in
\* the fault of a delta job: tick, then the final line, and the timer is off.
C22_Witness ==
    \E r \in BuildReqs :
        /\ b[r].headless = "false"
        /\ b[r].faultAt = "dispatch"
        /\ b[r].spinLog = <<"tick", "final">>
        /\ ~b[r].timer
        /\ \E i \in DOMAIN b[r].res.body : b[r].res.body[i] = Progress("final", FALSE)

\* C23: a build request whose handler has left its last phase, through a
\* fault or through success, is in Done: its Workdir is deleted and its
\* response is ended; the handler stops nowhere else.
C23_EveryPathEndsInDone ==
    \A r \in BuildReqs :
        (b[r].fault # "" \/ b[r].pc \in {"done", "rejected"})
            => /\ b[r].pc = "done"
               /\ b[r].workdir \notin fs
               /\ b[r].res.ended

\* C24: a delta request has sent its response exactly when its handler is
\* through; the response is one JSON object, {success: true, name} or
\* {success: false, message}, with content type text/html, and when it is
\* sent no directory the request created (temporary workdir, lock directory)
\* exists any more.
C24_OneResponseAfterCleanup ==
    \A r \in DeltaReqs :
        /\ d[r].resp.sent <=> d[r].pc = "done"
        /\ d[r].resp.sent =>
            /\ d[r].resp.contentType = "text/html"
            /\ IF d[r].resp.success
               THEN d[r].resp.name # <<>> /\ d[r].resp.message = ""
               ELSE d[r].resp.name = <<>> /\ d[r].resp.message # ""
            /\ \A e \in dfs : e.by # r

\* A build request between the creation and the deletion of its workdir.
Live(r) == execs[r].pc \notin {"idle", "done"}
\* C25: every process spawned for a build request runs in the request's own
\* workdir with its tool data directory and its docker config directory
\* inside that workdir; no two live build requests have the same workdir;
\* and the token a process works with is the one its own request's login
\* stored, never another request's.
C25_CredentialStorePerRequest ==
    /\ \A p \in procs :
        /\ p.cwd = execs[p.by].workdir
        /\ Inside(p.env.BALENARC_DATA_DIRECTORY, execs[p.by].workdir)
        /\ Inside(p.env.DOCKER_CONFIG, execs[p.by].workdir)
    /\ \A r1, r2 \in ExecReqs :
        (r1 # r2 /\ Live(r1) /\ Live(r2)) => execs[r1].workdir # execs[r2].workdir
    /\ \A c \in credStore :
        \E r \in ExecReqs : Live(r) /\ c.token = r /\ Inside(c.dir, execs[r].workdir)
    /\ \A r \in ExecReqs : execs[r].read \subseteq {r}
\* Two requests are live and logged in at once and the first has worked
\* with its own token; a third one is finished and has worked with its own.
C25_Witness ==
    \E r1, r2, r3 \in ExecReqs :
        /\ r1 # r2
        /\ execs[r1].pc = "finalize" /\ execs[r1].read = {r1}
        /\ execs[r2].pc = "build"
        /\ {c.token : c \in credStore} = {r1, r2}
        /\ execs[r3].pc = "done" /\ execs[r3].read = {r3}

\* C26: a build request whose toolchain login exited non-zero has faulted
\* in the login phase and is cleaned up: the architecture is not queried
\* and no build process is spawned.
C26_LoginFailureIsFatal ==
    \A r \in BuildReqs :
        b[r].loginCode > 0 =>
            /\ b[r].fault # "" /\ b[r].faultAt = "login"
            /\ b[r].pc = "done"
            /\ b[r].ops \cap ({"getArch", "build"} \cup AfterBuildOps) = {}

\* C27: for a request whose architecture query returned no rows no builder
\* target is selected and no build process is spawned.
C27_NoRowsIsNotFound ==
    appArch = "undefined" =>
        /\ ~buildSpawn.started
        /\ buildSpawn.env.DOCKER_HOST = ""
        /\ buildSpawn.cmd = <<>>

\* A delta job that has neither succeeded nor failed yet.
InFlight(job) == job \in {"token", "delta"}
\* C28: the phases of a build request do not overlap: the release queries
\* and the delta planning start only after the build process has closed,
\* release finalize starts only after every delta job has succeeded, and
\* the cleanup has run only when no build process, delta job or finalize
\* process of the request is in flight any more.
C28_PhasesNeverOverlap ==
    \A r \in BuildReqs :
        /\ b[r].ops \cap AfterBuildOps # {} => b[r].spawnStream.state = "closed"
        /\ "finalize" \in b[r].ops
            => \A j \in DOMAIN b[r].deltas : b[r].deltas[j] = "ok"
        /\ b[r].pc = "done"
            => /\ b[r].spawnStream.state \in {"none", "closed", "failed"}
               /\ \A j \in DOMAIN b[r].deltas : ~InFlight(b[r].deltas[j])
               /\ ~b[r].timer

\* The --dockerfile arguments a command may carry, and whether the request
\* came with a dockerfile path (the parameter present and not empty).
DockerfileArgs == {"--dockerfile=" \o p : p \in DockerfilePaths}
Supplied(path) == path \notin {"", "undefined"}
\* C29: the build command is balena deploy <slug> --build --draft followed
\* by the flags that apply and nothing else: --emulated iff the build is
\* emulated, --nocache iff the request asked for nocache, --dockerfile=<path>
\* iff the request came with a dockerfile path; no entry is empty.
C29_BuildCommandFlags ==
    buildSpawn.started =>
        LET cmd == buildSpawn.cmd IN
        /\ Len(cmd) >= 5
        /\ SubSeq(cmd, 1, 5) =
              <<"/usr/local/bin/balena", "deploy", "slug", "--build", "--draft">>
        /\ \A i \in 6..Len(cmd) :
              cmd[i] \in {"--emulated", "--nocache"} \cup DockerfileArgs
        /\ \A i \in DOMAIN cmd : cmd[i] # ""
        /\ Passed("--emulated") <=> buildSpawn.emulated = "true"
        /\ Passed("--nocache") <=> reqQuery.nocache = "true"
        /\ Supplied(reqQuery.dockerfilePath)
              => Passed("--dockerfile=" \o reqQuery.dockerfilePath)
        /\ ~Supplied(reqQuery.dockerfilePath)
              => \A i \in DOMAIN cmd : cmd[i] \notin DockerfileArgs

\* The text ends with a line break.
EndsWithNewline(text) == text # <<>> /\ text[Len(text)] = "\n"
\* C30: the frame pushed for a chunk carries the chunk's text, has isError
\* true iff the text contains '[Error]', and has replace true iff the text
\* contains the clear-line and carriage-return sequence or does not end with
\* a line break.
C30_TransformFlags ==
    pushed # <<>> =>
        /\ Len(pushed) = 1
        /\ pushed[1].message = chunk
        /\ pushed[1].isError <=> Includes(chunk, <<"[", "Error", "]">>)
        /\ pushed[1].replace <=>
              (Includes(chunk, <<"ESC", "[", "2K", "\r">>) \/ ~EndsWithNewline(chunk))

\* C31: a directory of the delta service's /tmp disappears only in a step
\* of the request that created it; a request's cleanup target is the lock
\* directory only if the request created it; and a request that is refused
\* the lock directory responds with the lock left in place under its
\* holder's name and with its own temporary workdir removed.
C31_RemovesOnlyOwnLock ==
    /\ [](\A r \in DeltaReqs :
            (d[r].workdir # <<>> /\ d[r].workdir # tmpWorkdir(r))
                => /\ d[r].madeLock
                   /\ d[r].workdir = buildWorkdir(d[r].src, d[r].dest))
    /\ [][\A e \in dfs : e \notin dfs' => d'[e.by] # d[e.by]]_vars
    /\ [][\A r \in DeltaReqs :
            (d[r].resp.message # "EEXIST" /\ d'[r].resp.message = "EEXIST")
            => /\ \E e \in dfs : /\ e.path = buildWorkdir(d[r].src, d[r].dest)
                                 /\ e.by # r
                                 /\ e \in dfs'
               /\ \A e \in dfs' : e.by # r
               /\ \E e \in dfs : e.by = r /\ e.path = tmpWorkdir(r)]_vars
\* A request was refused the lock directory and has responded; its
\* temporary workdir is gone, and the lock is still there under the name of
\* the request that is building in it.
C31_Witness ==
    \E r1, r2 \in DeltaReqs :
        /\ r1 # r2
        /\ d[r2].resp.sent /\ d[r2].resp.message = "EEXIST"
        /\ d[r2].workdir = tmpWorkdir(r2)
        /\ \A e \in dfs : e.by # r2
        /\ d[r1].pc \in BuildPcs
        /\ \E e \in dfs : e.by = r1 /\ e.path = d[r1].workdir
                          /\ e.path = buildWorkdir(d[r2].src, d[r2].dest)

\* The push of request r exited 0, and r responded success.
Succeeded(r) ==
    /\ "rmi" \in d[r].ran /\ d[r].failed \in {"", "rmi"}
    /\ d[r].resp.sent /\ d[r].resp.success
\* C32: a request B that waited on the lock of its (src, dest), left the
\* wait before the ceiling, and whose manifest check then came to an answer
\* (it was spawned and did not fail itself), while a request A for the same
\* src and dest has built and pushed with success: B found the image, made
\* no lock directory, ran no step of the build phase, and responds success
\* with A's name; and B leaves the wait before the ceiling only in a state
\* where the lock directory is gone.
C32_WaiterFindsHoldersImage ==
    /\ [](\A ra, rb \in DeltaReqs :
            (/\ ra # rb
             /\ d[ra].query = d[rb].query
             /\ Succeeded(ra)
             /\ d[rb].waited /\ ~d[rb].ceiling
             /\ d[rb].pc \notin {"lockwait", "inspect"}
             /\ ~d[rb].inspectFailed
             /\ d[rb].resp.message # "spawn failed")
            => /\ d[rb].exists
               /\ ~d[rb].madeLock
               /\ d[rb].ran \cap BuildPcs = {}
               /\ d[rb].pc = "done"
               /\ d[rb].resp.sent /\ d[rb].resp.success
               /\ d[rb].resp.name = d[ra].resp.name)
    /\ [][\A rb \in DeltaReqs :
            (d[rb].pc = "lockwait" /\ d'[rb].pc # "lockwait" /\ ~d'[rb].ceiling)
            => /\ ~Exists(buildWorkdir(d[rb].src, d[rb].dest))
               /\ d'[rb].pc = "inspect"]_vars
\* B waited on A's lock for fewer polls than the ceiling, A built, pushed
\* and responded, and B then answered success with A's name without a build
\* of its own.
C32_Witness ==
    \E ra, rb \in DeltaReqs :
        /\ ra # rb
        /\ d[ra].query = d[rb].query
        /\ Succeeded(ra) /\ d[ra].madeLock
        /\ d[rb].waited /\ ~d[rb].ceiling
        /\ d[rb].resp.sent /\ d[rb].resp.success
        /\ d[rb].resp.name = d[ra].resp.name
        /\ "push" \notin d[rb].ran

\* C33: in both services, while a process that a request spawned in a
\* directory is running, that directory exists: the build request's workdir
\* during login, build (headless and cancelled requests included) and
\* release finalize, the delta request's temporary workdir during login and
\* manifest check, its lock directory during the steps of the build phase.
C33_NoDeleteUnderRunningProcess ==
    /\ \A r \in BuildReqs : ProcRunning(r) => b[r].workdir \in fs
    /\ \A r \in DeltaReqs :
        DeltaProcCwd(r) # <<>>
            => \E e \in dfs : e.path = DeltaProcCwd(r) /\ e.by = r
\* A streaming build request was cancelled by its client: the build process
\* has been signalled and is still running, in a workdir that exists.
C33_Witness ==
    \E r \in BuildReqs :
        /\ b[r].res.closedAt = "running"
        /\ b[r].spawnStream.signals = 1
        /\ b[r].spawnStream.state = "running"
        /\ b[r].workdir \in fs
====
